---- MODULE Spec2Model ----
(***************************************************************************)
(* The store application's cart-to-order transaction and order lifecycle:  *)
(* carts and cart items, promo codes, the checkout view (one database      *)
(* transaction per request, read-committed, no row locks), and the         *)
(* status / payment transitions made by customers, delivery agents and     *)
(* the admin.                                                              *)
(*                                                                         *)
(* Money: persisted DecimalField(decimal_places=2) values are integers in  *)
(* paise (1/100 rupee).  Values still in flight inside a request (a        *)
(* percentage discount, the total computed from it) are exact Decimals and *)
(* are kept in hundredths of a paisa; Quantize brings them to paise when a *)
(* row is written.                                                         *)
(***************************************************************************)
EXTENDS Integers, Sequences, FiniteSets, Bags, TLC

\* ------------------------------------------------------------------ bounds
MaxQty == 2
MaxOrders == 2

Visitors == {1, 2}
ProductIds == {1, 2}
DeliveryBoys == {1, 2}

\* None for a nullable numeric column or an absent row reference.
None == -1

\* ------------------------------------------------------- the catalogue data
\* Product rows: price and discount_price in paise.
InitialProducts ==
    [p \in ProductIds |->
        IF p = 1
        THEN [name |-> "Atta", price |-> 1010, discount_price |-> None,
              stock |-> 1, available |-> TRUE]
        ELSE [name |-> "Ghee", price |-> 30000, discount_price |-> 20000,
              stock |-> 3, available |-> TRUE]]

\* Stock of product 1 when the run starts.
InitialStocks == {1, 2}

\* PromoCode rows, by code.  used_count is the mutable column (promo_used).
\* SAVE5: 5 percent, one use.  CAP10: 10 percent, at most 1.50.  ZEROCAP: 10
\* percent with max_discount 0.00.  FLAT15: 15.00 off.  The others are 10
\* percent codes that fail is_valid: OFF is inactive and not yet valid, EARLY
\* not yet valid and without uses left, OLD expired and without uses left,
\* USED without uses left and with a minimum purchase of 20.00, BIG with
\* that minimum purchase only.
DiscountCodes == {"SAVE5", "CAP10", "ZEROCAP", "FLAT15"}
ValidityCodes == {"OFF", "EARLY", "OLD", "USED", "BIG"}
PromoCodes == DiscountCodes \cup ValidityCodes
SessionCodes == {"SAVE5"}
NoCode == "-"

PromoRow(code) ==
    [code |-> code,
     discount_type |-> IF code = "FLAT15" THEN "flat" ELSE "percentage",
     discount_value |-> IF code = "SAVE5" THEN 5 ELSE IF code = "FLAT15" THEN 1500 ELSE 10,
     max_discount |-> IF code = "CAP10" THEN 150 ELSE IF code = "ZEROCAP" THEN 0 ELSE None,
     min_purchase |-> IF code \in {"USED", "BIG"} THEN 2000 ELSE 0,
     max_usage |-> IF code = "SAVE5" THEN 1
                   ELSE IF code \in {"EARLY", "OLD", "USED"} THEN 0 ELSE None,
     is_active |-> code # "OFF",
     valid_from |-> IF code \in {"OFF", "EARLY"} THEN 2 ELSE IF code = "OLD" THEN -3 ELSE 0,
     valid_until |-> IF code = "OLD" THEN 0 ELSE None]

\* timezone.now() of the requests modelled; inside SAVE5's validity window.
Now == 1

\* ShippingMethod rows offered by the checkout form (one active method).
NoMethod == [id |-> 0, price |-> 0, min_order_amount |-> 0]
ShippingMethods == {[id |-> 1, price |-> 4000, min_order_amount |-> 20000]}

\* SiteSettings.min_order_amount's default (paise).
SiteMinOrderAmount == 0
\* The fixed default shipping cost, Decimal('50.00').
DefaultShippingCost == 5000

\* ------------------------------------------------------------ pure helpers
Max(a, b) == IF a >= b THEN a ELSE b
Min(a, b) == IF a <= b THEN a ELSE b

RECURSIVE SumOver(_, _)
\* sum(f[x] for x in S)
SumOver(S, f) ==
    IF S = {} THEN 0
    ELSE LET x == CHOOSE y \in S : TRUE IN f[x] + SumOver(S \ {x}, f)

\* paise -> hundredths of a paisa
Exact(paise) == paise * 100

\* Decimal.quantize to two places, as the database layer does when a
\* DecimalField(decimal_places=2) is written: ROUND_HALF_EVEN through
\* django.db.backends.utils.format_number, ROUND_HALF_UP where the database
\* itself rounds a numeric(10,2).  Argument in hundredths of a paisa (>= 0),
\* result in paise.
Quantize(u, rounding) ==
    LET q == u \div 100
        rem == u % 100
    IN  IF rem < 50 THEN q
        ELSE IF rem > 50 THEN q + 1
        ELSE IF rounding = "ROUND_HALF_UP" THEN q + 1
        ELSE IF q % 2 = 0 THEN q ELSE q + 1

RoundingModes == {"ROUND_HALF_EVEN", "ROUND_HALF_UP"}

\* Product effective price: discount_price or price (None and 0 are falsy).
EffectivePrice(prod) ==
    IF prod.discount_price # None /\ prod.discount_price # 0
    THEN prod.discount_price ELSE prod.price

VARIABLES
    products,        \* Product rows: [ProductIds -> [name, price, discount_price, stock, available]]
    carts,           \* visitors that have a Cart row
    cart_items,      \* CartItem rows: a bag of [cart, product, quantity]
    session_promo,   \* request.session['applied_promo_code'] per visitor
    promo_used,      \* PromoCode.used_count, by code
    addresses,       \* Address rows: a sequence of [user]
    orders,          \* committed Order rows with their items and Payment
    authenticated,   \* whether the visitor is a logged-in user
    boy_active,      \* DeliveryBoy.is_active
    db_rounding,     \* how the database rounds a decimal to two places
    site_settings,   \* the SiteSettings row (pk=1): [min_order_amount]
    pc,              \* each visitor's position in the checkout view
    chk,             \* the checkout request's locals and uncommitted writes
    outbox,          \* visitors a confirmation mail was handed to the mailer for
    response         \* the exception the last handler ended with, or "none"

vars == <<products, carts, cart_items, session_promo, promo_used, addresses,
          orders, authenticated, boy_active, db_rounding, site_settings, pc, chk, outbox, response>>

dbVars == <<products, carts, cart_items, promo_used, addresses, orders>>

\* ------------------------------------------------------------------ carts
\* The CartItem rows of cart c for product p.
ItemRows(items, c, p) ==
    {row \in BagToSet(items) : row.cart = c /\ row.product = p}

\* The CartItem rows of cart c.
CartRows(items, c) == {row \in BagToSet(items) : row.cart = c}

\* Number of CartItem rows for (c, p), duplicates counted.
RowCount(items, c, p) ==
    SumOver(ItemRows(items, c, p), [row \in ItemRows(items, c, p) |-> CopiesIn(row, items)])

NewRow(c, p, q) == [cart |-> c, product |-> p, quantity |-> q]

\* What is kept of the answer of handler op to visitor who: the exception
\* that left the handler, "none" when it returned a page or a redirect.
Exceptions == {"IntegrityError", "server_error", "ValidationError"}
Resp(op, who, result) == IF result \in Exceptions THEN result ELSE "none"

\* A cart_add that inserts a row without looking for the product's line.
AddToCart_insert(items, c, p, quantity) ==
    items (+) SetToBag({NewRow(c, p, Max(quantity, 1))})

\* CartItem.objects.get_or_create(cart, product) then the quantity update
\* and item.save(): the rows after cart_add.
AddToCart(items, c, p, quantity) ==
    IF ItemRows(items, c, p) = {}
    THEN items (+) SetToBag({NewRow(c, p, Max(quantity, 1))})
    ELSE LET item == CHOOSE row \in ItemRows(items, c, p) : TRUE
         IN  (items (-) SetToBag({item}))
                 (+) SetToBag({NewRow(c, p, item.quantity + Max(quantity, 1))})

\* The quantity cart_add would leave on the line.
AddedQuantity(items, c, p, quantity) ==
    IF ItemRows(items, c, p) = {} THEN Max(quantity, 1)
    ELSE (CHOOSE row \in ItemRows(items, c, p) : TRUE).quantity + Max(quantity, 1)

\* views.cart_add
cart_add(r, p, quantity) ==
    /\ products[p].available
    /\ AddedQuantity(cart_items, r, p, quantity) <= MaxQty
    /\ carts' = carts \cup {r}
    /\ cart_items' = AddToCart(cart_items, r, p, quantity)
    /\ response' = Resp("cart_add", r, "redirect")
    /\ UNCHANGED <<products, session_promo, promo_used, addresses, orders,
                   authenticated, boy_active, db_rounding, site_settings, pc, chk, outbox>>

\* views.cart_remove
cart_remove(r, p) ==
    /\ carts' = carts \cup {r}
    /\ cart_items' =
          IF ItemRows(cart_items, r, p) = {} THEN cart_items
          ELSE cart_items (-) SetToBag({CHOOSE row \in ItemRows(cart_items, r, p) : TRUE})
    /\ response' = Resp("cart_remove", r, "redirect")
    /\ UNCHANGED <<products, session_promo, promo_used, addresses, orders,
                   authenticated, boy_active, db_rounding, site_settings, pc, chk, outbox>>

\* A cart_update that stores whatever quantity it is given.
UpdateCart_set(items, c, p, quantity) ==
    IF ItemRows(items, c, p) = {} THEN items
    ELSE LET item == CHOOSE row \in ItemRows(items, c, p) : TRUE
         IN  (items (-) SetToBag({item})) (+) SetToBag({NewRow(c, p, quantity)})

\* The rows after cart_update's delete-or-set.
UpdateCart(items, c, p, quantity) ==
    IF ItemRows(items, c, p) = {} THEN items
    ELSE LET item == CHOOSE row \in ItemRows(items, c, p) : TRUE
         IN  IF quantity <= 0
             THEN items (-) SetToBag({item})
             ELSE (items (-) SetToBag({item})) (+) SetToBag({NewRow(c, p, quantity)})

\* views.cart_update (POST)
cart_update(r, p, quantity) ==
    /\ carts' = carts \cup {r}
    /\ cart_items' = UpdateCart(cart_items, r, p, quantity)
    /\ response' = Resp("cart_update", r, "redirect")
    /\ UNCHANGED <<products, session_promo, promo_used, addresses, orders,
                   authenticated, boy_active, db_rounding, site_settings, pc, chk, outbox>>

\* ------------------------------------------------------------ promo engine
\* An is_valid that looks at the usage limit before the dates.
IsValid_usage_first(promo, used, cart_total, now) ==
    IF ~promo.is_active THEN "inactive"
    ELSE IF promo.max_usage # None /\ used >= promo.max_usage THEN "exhausted"
    ELSE IF now < promo.valid_from THEN "not_yet_valid"
    ELSE IF promo.valid_until # None /\ now > promo.valid_until THEN "expired"
    ELSE IF cart_total < promo.min_purchase THEN "below_min_purchase"
    ELSE "valid"

\* PromoCode.is_valid(cart_total): the first failing reason, or "valid".
\* promo is the row's fixed columns, used the used_count the caller read.
IsValid(promo, used, cart_total, now) ==
    IF ~promo.is_active THEN "inactive"
    ELSE IF now < promo.valid_from THEN "not_yet_valid"
    ELSE IF promo.valid_until # None /\ now > promo.valid_until THEN "expired"
    ELSE IF promo.max_usage # None /\ used >= promo.max_usage THEN "exhausted"
    ELSE IF cart_total < promo.min_purchase THEN "below_min_purchase"
    ELSE "valid"

\* A flat discount handed out in full whatever the amount.
CalculateDiscount_unclamped(promo, amount) ==
    IF promo.discount_type = "percentage"
    THEN amount * promo.discount_value
    ELSE Exact(promo.discount_value)

\* PromoCode.calculate_discount(amount): amount in paise, the result exact
\* (hundredths of a paisa), as the Decimal arithmetic leaves it.
CalculateDiscount(promo, amount) ==
    IF promo.discount_type = "percentage"
    THEN LET discount == amount * promo.discount_value
         IN  IF promo.max_discount # None /\ promo.max_discount # 0
             THEN Min(discount, Exact(promo.max_discount))
             ELSE discount
    ELSE Exact(Min(promo.discount_value, amount))

\* A use() that counts double.
Use_twice(used) == used + 2

\* PromoCode.use() on an instance whose in-memory used_count is used:
\* the value save(update_fields=['used_count']) writes.
Use(used) == used + 1

\* PromoCode.objects.get(code__iexact=code, is_active=True) finds a row.
PromoExists(code) == code \in PromoCodes /\ PromoRow(code).is_active

\* Cart.get_total_price(): sum of CartItem.get_cost() over the cart's rows.
CartTotal(items, prods, c) ==
    SumOver(CartRows(items, c),
            [row \in CartRows(items, c) |->
                EffectivePrice(prods[row.product]) * row.quantity * CopiesIn(row, items)])

\* views.apply_promo_code
apply_promo_code(r, code) ==
    /\ IF code = NoCode
       THEN /\ response' = Resp("apply_promo_code", r, "enter_a_code")
            /\ UNCHANGED <<carts, session_promo>>
       ELSE IF ~PromoExists(code)
       THEN /\ response' = Resp("apply_promo_code", r, "invalid_code")
            /\ UNCHANGED <<carts, session_promo>>
       ELSE LET reason == IsValid(PromoRow(code), promo_used[code],
                                  CartTotal(cart_items, products, r), Now)
            IN  /\ carts' = carts \cup {r}
                /\ IF reason = "valid"
                   THEN /\ session_promo' = [session_promo EXCEPT ![r] = code]
                        /\ response' = Resp("apply_promo_code", r, "applied")
                   ELSE /\ response' = Resp("apply_promo_code", r, reason)
                        /\ UNCHANGED session_promo
    /\ UNCHANGED <<products, cart_items, promo_used, addresses, orders,
                   authenticated, boy_active, db_rounding, site_settings, pc, chk, outbox>>

\* views.set_promo_code
set_promo_code(r, code) ==
    /\ session_promo' = [session_promo EXCEPT ![r] = code]
    /\ response' = Resp("set_promo_code", r, "success")
    /\ UNCHANGED <<products, carts, cart_items, promo_used, addresses, orders,
                   authenticated, boy_active, db_rounding, site_settings, pc, chk, outbox>>

\* ------------------------------------------------------- pricing calculator
\* utils.calculate_tax: round(float(amount) * 0.18, 2).  amount exact
\* (hundredths of a paisa); the set of results in paise.  The float product
\* never sits exactly on a half paisa, so where the decimal product does,
\* either neighbour can come out.
CalculateTax(amount) ==
    LET t == amount * 18
        q == t \div 10000
        rem == t % 10000
    IN  IF rem < 5000 THEN {q}
        ELSE IF rem > 5000 THEN {q + 1}
        ELSE {q, q + 1}

\* A calculator that asks the site-wide threshold before the method.
CalculateShippingCost_site_first(order_total, method, settings) ==
    IF order_total >= settings.min_order_amount THEN 0
    ELSE IF method # NoMethod THEN method.price
    ELSE DefaultShippingCost

\* utils.calculate_shipping_cost(order_total, shipping_method); settings is
\* the row SiteSettings.load() returns.
CalculateShippingCost(order_total, method, settings) ==
    IF method # NoMethod
    THEN IF order_total >= method.min_order_amount THEN 0 ELSE method.price
    ELSE IF order_total >= settings.min_order_amount THEN 0 ELSE DefaultShippingCost

\* ------------------------------------------------------ delivery assignment
OpenStatuses == {"pending", "processing", "shipped"}

\* Count('delivery_orders', filter=status in open) for agent b.
ActiveCount(ords, b) ==
    Cardinality({i \in DOMAIN ords :
                    ords[i].delivery_boy = b /\ ords[i].status \in OpenStatuses})

\* An assignment that ignores the agents' load.
Candidate_lowest(ords, active) ==
    LET cands == {b \in DeliveryBoys : active[b]}
    IN  IF cands = {} THEN None
        ELSE CHOOSE b \in cands : \A c \in cands : b <= c

\* DeliveryBoy.objects.filter(is_active=True).annotate(...)
\*     .order_by('active_count', 'id').first()
Candidate(ords, active) ==
    LET cands == {b \in DeliveryBoys : active[b]}
    IN  IF cands = {} THEN None
        ELSE CHOOSE b \in cands :
                \A c \in cands :
                    \/ ActiveCount(ords, b) < ActiveCount(ords, c)
                    \/ ActiveCount(ords, b) = ActiveCount(ords, c) /\ b <= c

\* --------------------------------------------------------------- checkout
\* The checkout view runs under @transaction.atomic: what it writes is held
\* in chk[r] until the view returns, and becomes visible to other requests
\* only then.  Each read sees the rows committed at that moment.

\* A checkout request's locals before it has read anything.
IdleChk ==
    [cart_total |-> 0, promo_obj |-> NoCode, promo_count |-> 0,
     discount_amount |-> 0, pop_session |-> FALSE, order |-> <<>>,
     new_address |-> FALSE, product_w |-> {}, promo_w |-> None,
     cleared |-> EmptyBag]

InCheckout == {v \in Visitors : pc[v] # "idle"}

\* The database rows as one value.
Db == [products |-> products, cart_items |-> cart_items, promo_used |-> promo_used,
       addresses |-> addresses, orders |-> orders]

\* Order.save(): total from the other four monetary fields (exact).
OrderTotal(subtotal, tax_amount, shipping_cost, discount_amount) ==
    Exact(subtotal + tax_amount + shipping_cost) - discount_amount

\* A commit that loses the cart's clearing.
Committed_keeps_cart(db, c) ==
    [products |->
        [p \in ProductIds |->
            IF \E w \in c.product_w : w.id = p
            THEN (CHOOSE w \in c.product_w : w.id = p).row
            ELSE db.products[p]],
     cart_items |-> db.cart_items,
     promo_used |->
        IF c.promo_w # None
        THEN [db.promo_used EXCEPT ![c.promo_obj] = c.promo_w]
        ELSE db.promo_used,
     addresses |->
        IF c.new_address
        THEN Append(db.addresses, [user |-> c.order[1].user])
        ELSE db.addresses,
     orders |-> IF c.order # <<>> THEN Append(db.orders, c.order[1]) ELSE db.orders]

\* The transaction's writes applied to the committed rows (the view
\* returned normally).
Committed(db, c) ==
    [products |->
        [p \in ProductIds |->
            IF \E w \in c.product_w : w.id = p
            THEN (CHOOSE w \in c.product_w : w.id = p).row
            ELSE db.products[p]],
     cart_items |-> db.cart_items (-) c.cleared,
     promo_used |->
        IF c.promo_w # None
        THEN [db.promo_used EXCEPT ![c.promo_obj] = c.promo_w]
        ELSE db.promo_used,
     addresses |->
        IF c.new_address
        THEN Append(db.addresses, [user |-> c.order[1].user])
        ELSE db.addresses,
     orders |->
        IF c.order # <<>>
        THEN Append(db.orders,
                    IF c.new_address
                    THEN [c.order[1] EXCEPT !.shipping_address = Len(db.addresses) + 1]
                    ELSE c.order[1])
        ELSE db.orders]

\* A view that raised and yet kept its writes.
RolledBack_partial(db, c) == Committed(db, c)

\* The committed rows after the view raised: transaction.atomic rolls every
\* write of the request back.
RolledBack(db, c) == db

\* A minimum order check that lets every cart through.
BelowMinimum_never(settings, cart_total) == FALSE

\* views.checkout, lines 352-353: the cart is worth less than a positive
\* site-wide minimum order amount.
BelowMinimum(settings, cart_total) ==
    settings.min_order_amount > 0 /\ cart_total < settings.min_order_amount

\* views.checkout, lines 342-377 and 493-530: _get_cart and items.exists(),
\* the cart total, the minimum order check, the session's promo code, and
\* the form.  kind is the request: "GET", a POST whose form is invalid, or a
\* POST with a valid form.  limit caps the orders placed.
CheckoutOpen(r, kind, limit) ==
    /\ pc[r] = "idle"
    /\ Len(orders) + Cardinality(InCheckout) < limit
    /\ carts' = carts \cup {r}
    /\ LET cart_total == CartTotal(cart_items, products, r)
           applied == session_promo[r]
           found == applied # NoCode /\ PromoExists(applied)
           used == IF found THEN promo_used[applied] ELSE 0
           valid == found /\ IsValid(PromoRow(applied), used, cart_total, Now) = "valid"
           discount == IF valid THEN CalculateDiscount(PromoRow(applied), cart_total) ELSE 0
           popped == IF applied # NoCode /\ ~found
                     THEN [session_promo EXCEPT ![r] = NoCode] ELSE session_promo
       IN  IF CartRows(cart_items, r) = {}
           THEN /\ response' = Resp("checkout", r, "cart_empty")
                /\ UNCHANGED <<pc, chk, session_promo>>
           ELSE IF BelowMinimum(site_settings, cart_total)
           THEN /\ response' = Resp("checkout", r, "below_minimum")
                /\ UNCHANGED <<pc, chk, session_promo>>
           ELSE IF kind # "POST_valid"
           THEN /\ response' = Resp("checkout", r, "render_form")
                /\ session_promo' = popped
                /\ UNCHANGED <<pc, chk>>
           ELSE /\ pc' = [pc EXCEPT ![r] = "priced"]
                /\ chk' = [chk EXCEPT ![r] =
                              [IdleChk EXCEPT !.cart_total = cart_total,
                                              !.promo_obj = IF found THEN applied ELSE NoCode,
                                              !.promo_count = used,
                                              !.discount_amount = discount,
                                              !.pop_session = (applied # NoCode /\ ~found)]]
                /\ UNCHANGED <<session_promo, response>>
    /\ UNCHANGED <<products, cart_items, promo_used, addresses, orders,
                   authenticated, boy_active, db_rounding, site_settings, outbox>>

\* The values Order._generate_order_number() can return: the timestamp and
\* six random characters, here a number.
OrderNumbers == 1 .. MaxOrders

\* The order numbers of committed orders.
TakenNumbers(ords) == {ords[i].order_number : i \in DOMAIN ords}

\* The order numbers other requests have inserted and not yet committed.
PendingNumbers(r) ==
    {chk[v].order[1].order_number : v \in {w \in Visitors \ {r} : chk[w].order # <<>>}}

\* The generator's values that meet no other order's number (all but a
\* negligible share of them): the lowest stands for them.
FreshNumbers(r) ==
    LET free == OrderNumbers \ (TakenNumbers(orders) \cup PendingNumbers(r))
    IN  {n \in free : \A m \in free : n <= m}

\* The Order row checkout inserts (Order.objects.create, Payment.objects.create
\* and the delivery assignment), as the database holds it.
NewOrder(user, c, tax_amount, shipping_cost, address, candidate, rounding, order_number) ==
    LET total == OrderTotal(c.cart_total, tax_amount, shipping_cost, c.discount_amount)
    IN  [order_number |-> order_number,
         user |-> user,
         status |-> "pending",
         payment_status |-> "pending",
         payment_method |-> "cod",
         subtotal |-> c.cart_total,
         tax_amount |-> tax_amount,
         shipping_cost |-> shipping_cost,
         discount_amount |-> Quantize(c.discount_amount, rounding),
         total |-> Quantize(total, rounding),
         promo_code |-> c.promo_obj,
         shipping_address |-> address,
         delivery_boy |-> candidate,
         items |-> {},
         payment |-> [payment_status |-> "pending", payment_method |-> "cod",
                      amount |-> Quantize(total, rounding)]]

\* The saved addresses the form lets the visitor choose from.
SavedAddresses(r) ==
    IF authenticated[r]
    THEN {i \in DOMAIN addresses : addresses[i].user = r}
    ELSE {}

\* views.checkout, lines 378-460: the address, the totals, the Order and
\* Payment rows, the delivery agent.  saved is the address chosen in the
\* form (0: none, a new Address is created).  Address.user is NOT NULL, so
\* creating the address of an anonymous visitor raises.  number is what
\* Order.save() got from _generate_order_number(): order_number is unique,
\* so the INSERT waits for an uncommitted order holding the same number and
\* raises IntegrityError against a committed one.
CheckoutCreate(r, method, saved, number) ==
    /\ pc[r] = "priced"
    /\ saved \in SavedAddresses(r) \cup {0}
    /\ number \notin PendingNumbers(r)
    /\ \E tax_amount \in CalculateTax(Exact(chk[r].cart_total) - chk[r].discount_amount) :
       LET user == IF authenticated[r] THEN r ELSE None
           c == chk[r]
           shipping_cost == CalculateShippingCost(c.cart_total, method, site_settings)
       IN  IF (saved = 0 /\ user = None) \/ number \in TakenNumbers(orders)
           THEN /\ pc' = [pc EXCEPT ![r] = "idle"]
                /\ chk' = [chk EXCEPT ![r] = IdleChk]
                /\ response' = Resp("checkout", r, "IntegrityError")
           ELSE /\ pc' = [pc EXCEPT ![r] = "created"]
                /\ chk' = [chk EXCEPT ![r] =
                              [c EXCEPT !.new_address = (saved = 0),
                                        !.order = <<NewOrder(user, c, tax_amount, shipping_cost,
                                                             saved, Candidate(orders, boy_active),
                                                             db_rounding, number)>>]]
                /\ UNCHANGED response
    /\ UNCHANGED <<products, carts, cart_items, session_promo, promo_used, addresses,
                   orders, authenticated, boy_active, db_rounding, site_settings, outbox>>

\* The OrderItem rows made from the cart rows read at line 463.
OrderItems(rows, prods) ==
    {[product |-> row.product,
      product_name |-> prods[row.product].name,
      price |-> EffectivePrice(prods[row.product]),
      quantity |-> row.quantity,
      subtotal |-> EffectivePrice(prods[row.product]) * row.quantity] : row \in rows}

\* The Product rows item.product.save() writes at lines 474-476: only for a
\* line whose quantity the stock read with the line covers.
StockWrites(rows, prods) ==
    {[id |-> row.product,
      row |-> [prods[row.product] EXCEPT !.stock = @ - row.quantity]] :
        row \in {x \in rows : prods[x.product].stock >= x.quantity}}

\* The used_count promo_code_obj.use() writes at lines 479-481.
PromoWrite(c) == IF c.promo_obj # NoCode THEN Use(c.promo_count) ELSE None

\* A view that lets the sender's exception out.
AfterEmail_raise(delivered) == IF delivered THEN "filled" ELSE "raised"

\* views.checkout, lines 486-490: where the view stands after the try/except
\* around send_order_confirmation_email; the exception is printed and the
\* view goes on to its return.
AfterEmail(delivered) == "filled"

\* views.checkout, lines 462-490: the cart lines become order items, stock
\* is lowered, the promo is marked used, the cart is cleared, and
\* send_order_confirmation_email is called, inside the view and so before
\* the transaction commits.  delivered is whether the mail backend accepted
\* the message; a failure is swallowed.
CheckoutItems(r, delivered) ==
    /\ pc[r] = "created"
    /\ outbox' = IF delivered /\ chk[r].order[1].user # None
                 THEN outbox \cup {r} ELSE outbox
    /\ LET rows == CartRows(cart_items, r)
           c == chk[r]
       IN  chk' = [chk EXCEPT ![r] =
                      [c EXCEPT !.order = <<[c.order[1] EXCEPT
                                               !.items = OrderItems(rows, products)]>>,
                                !.product_w = StockWrites(rows, products),
                                !.promo_w = PromoWrite(c),
                                !.pop_session = c.pop_session \/ c.promo_obj # NoCode,
                                !.cleared = [row \in rows |-> CopiesIn(row, cart_items)]]]
    /\ pc' = [pc EXCEPT ![r] = AfterEmail(delivered)]
    /\ UNCHANGED <<products, carts, cart_items, session_promo, promo_used, addresses,
                   orders, authenticated, boy_active, db_rounding, site_settings, response>>

\* views.checkout, line 492: the view returns the redirect; the transaction
\* commits and the session is saved.
CheckoutCommit(r) ==
    /\ pc[r] = "filled"
    /\ LET db == Committed(Db, chk[r])
       IN  /\ products' = db.products
           /\ cart_items' = db.cart_items
           /\ promo_used' = db.promo_used
           /\ addresses' = db.addresses
           /\ orders' = db.orders
    /\ session_promo' = IF chk[r].pop_session
                        THEN [session_promo EXCEPT ![r] = NoCode] ELSE session_promo
    /\ pc' = [pc EXCEPT ![r] = "idle"]
    /\ chk' = [chk EXCEPT ![r] = IdleChk]
    /\ response' = Resp("checkout", r, "order_success")
    /\ UNCHANGED <<carts, authenticated, boy_active, db_rounding, site_settings, outbox>>

\* A statement of the view raises after the form validated (the database
\* refuses a row, the connection drops): the exception leaves the view and
\* the transaction is rolled back; the session is not saved on a 500.
CheckoutFail(r) ==
    /\ pc[r] \in {"priced", "created", "filled"}
    /\ LET db == RolledBack(Db, chk[r])
       IN  /\ products' = db.products
           /\ cart_items' = db.cart_items
           /\ promo_used' = db.promo_used
           /\ addresses' = db.addresses
           /\ orders' = db.orders
    /\ pc' = [pc EXCEPT ![r] = "idle"]
    /\ chk' = [chk EXCEPT ![r] = IdleChk]
    /\ response' = Resp("checkout", r, "server_error")
    /\ UNCHANGED <<carts, session_promo, authenticated, boy_active, db_rounding, site_settings, outbox>>

\* -------------------------------------------------------- order lifecycle
\* Each handler below is one short request on committed rows.

CheckoutFrame == <<products, carts, cart_items, session_promo, promo_used, addresses,
                   authenticated, boy_active, db_rounding, site_settings, pc, chk, outbox>>

\* A guard that lets every order through.
CanCancel_any(o) == TRUE

\* Order.can_cancel()
CanCancel(o) == o.status \in {"pending", "processing"}

\* Order.cancel(): the row afterwards and whether ValidationError was raised.
Cancel(o) ==
    IF ~CanCancel(o)
    THEN [raised |-> TRUE, row |-> o]
    ELSE [raised |-> FALSE, row |-> [o EXCEPT !.status = "cancelled"]]

\* An Order.save() that writes every column whatever update_fields says.
OrderSave_every_field(row, instance, update_fields) ==
    [instance EXCEPT !.total = instance.subtotal + instance.tax_amount
                                   + instance.shipping_cost - instance.discount_amount]

\* Order.save(update_fields=...) of a loaded instance on its row: total is
\* recomputed on the instance, and only the named columns are written.
OrderSave(row, instance, update_fields) ==
    LET computed == [instance EXCEPT !.total = instance.subtotal + instance.tax_amount
                                         + instance.shipping_cost - instance.discount_amount]
    IN  [f \in DOMAIN row |-> IF f \in update_fields THEN computed[f] ELSE row[f]]

\* Order.mark_as_paid() on an instance loaded from row: payment_status is
\* set and save(update_fields=['payment_status', 'payment_id', 'updated_at'])
\* writes it; whatever else the caller set on the instance is not written.
MarkAsPaid(row, instance) ==
    OrderSave(row, [instance EXCEPT !.payment_status = "paid"], {"payment_status"})

\* Order.cancel() called on order i.
Order_cancel(i) ==
    /\ i \in DOMAIN orders
    /\ orders' = [orders EXCEPT ![i] = Cancel(@).row]
    /\ response' = IF Cancel(orders[i]).raised
                   THEN Resp("cancel", 0, "ValidationError")
                   ELSE Resp("cancel", 0, "success")
    /\ UNCHANGED CheckoutFrame

\* views.order_cancel: the logged-in owner of order i asks to cancel it;
\* post is whether the request is the confirming POST.
order_cancel(r, i, post) ==
    /\ i \in DOMAIN orders
    /\ authenticated[r]
    /\ orders[i].user = r
    /\ orders' = IF CanCancel(orders[i]) /\ post
                 THEN [orders EXCEPT ![i] = Cancel(@).row]
                 ELSE orders
    /\ response' = Resp("order_cancel", r, "redirect")
    /\ UNCHANGED CheckoutFrame

\* queryset.update(status=...) of an admin bulk action on the orders S.
BulkUpdate(ords, S, status) ==
    [i \in DOMAIN ords |-> IF i \in S THEN [ords[i] EXCEPT !.status = status] ELSE ords[i]]

\* OrderAdmin.mark_as_processing
mark_as_processing(S) ==
    /\ orders' = BulkUpdate(orders, S, "processing")
    /\ response' = Resp("admin", 0, "success")
    /\ UNCHANGED CheckoutFrame

\* OrderAdmin.mark_as_shipped
mark_as_shipped(S) ==
    /\ orders' = BulkUpdate(orders, S, "shipped")
    /\ response' = Resp("admin", 0, "success")
    /\ UNCHANGED CheckoutFrame

\* What OrderAdmin.mark_as_delivered's queryset.update leaves of a selected row.
AdminDelivered(o) == [o EXCEPT !.status = "delivered", !.payment_status = "paid"]

\* OrderAdmin.mark_as_delivered
mark_as_delivered(S) ==
    /\ orders' = [i \in DOMAIN orders |->
                     IF i \in S THEN AdminDelivered(orders[i]) ELSE orders[i]]
    /\ response' = Resp("admin", 0, "success")
    /\ UNCHANGED CheckoutFrame

\* OrderAdmin.mark_as_cancelled
mark_as_cancelled(S) ==
    /\ orders' = [i \in DOMAIN orders |->
                     IF i \in S /\ CanCancel(orders[i])
                     THEN Cancel(orders[i]).row ELSE orders[i]]
    /\ response' = Resp("admin", 0, "success")
    /\ UNCHANGED CheckoutFrame

AgentActions == {"mark_paid_cod", "mark_paid_online", "mark_processing",
                 "mark_shipped", "mark_delivered", "invalid"}

\* What views.delivery_order_update's action leaves of the agent's order.
AgentUpdate(o, action) ==
    IF action = "mark_paid_cod" THEN MarkAsPaid(o, [o EXCEPT !.payment_method = "cod"])
    ELSE IF action = "mark_paid_online" THEN MarkAsPaid(o, [o EXCEPT !.payment_method = "stripe"])
    ELSE IF action = "mark_processing" THEN [o EXCEPT !.status = "processing"]
    ELSE IF action = "mark_shipped" THEN [o EXCEPT !.status = "shipped"]
    ELSE IF action = "mark_delivered" THEN [o EXCEPT !.status = "delivered"]
    ELSE o

\* views.delivery_order_update by agent b on order i (404 unless assigned).
delivery_order_update(b, i, action) ==
    /\ i \in DOMAIN orders
    /\ orders[i].delivery_boy = b
    /\ orders' = [orders EXCEPT ![i] = AgentUpdate(@, action)]
    /\ response' = Resp("delivery_order_update", b, "redirect")
    /\ UNCHANGED CheckoutFrame

\* Payment.mark_as_completed on order i's Payment.
mark_as_completed(i) ==
    /\ i \in DOMAIN orders
    /\ orders' = [orders EXCEPT ![i] =
                     LET o == [@ EXCEPT !.payment.payment_status = "completed"]
                     IN  MarkAsPaid(o, o)]
    /\ response' = Resp("payment", 0, "success")
    /\ UNCHANGED CheckoutFrame

\* Payment.mark_as_failed on order i's Payment.
mark_as_failed(i) ==
    /\ i \in DOMAIN orders
    /\ orders' = [orders EXCEPT ![i] =
                     [@ EXCEPT !.payment.payment_status = "failed",
                               !.payment_status = "failed"]]
    /\ response' = Resp("payment", 0, "success")
    /\ UNCHANGED CheckoutFrame

\* ------------------------------------------------------------ specification
\* The store before any request: no carts, no orders, the promo unused; the
\* stock of product 1, who is logged in, which delivery agents are active,
\* the database's rounding, the site-wide minimum order amount and the
\* promos' used_count drawn from the given sets.
InitStore(stocks, logins, agents, roundings, minimums, uses) ==
    /\ products \in {[InitialProducts EXCEPT ![1].stock = n] : n \in stocks}
    /\ carts = {}
    /\ cart_items = EmptyBag
    /\ session_promo = [v \in Visitors |-> NoCode]
    /\ promo_used \in uses
    /\ addresses = <<>>
    /\ orders = <<>>
    /\ authenticated \in logins
    /\ boy_active \in agents
    /\ db_rounding \in roundings
    /\ site_settings \in {[min_order_amount |-> m] : m \in minimums}
    /\ pc = [v \in Visitors |-> "idle"]
    /\ chk = [v \in Visitors |-> IdleChk]
    /\ outbox = {}
    /\ response = Resp("none", 0, "none")

\* No promo used yet.
Unused == [code \in PromoCodes |-> 0]

\* The store with SiteSettings as get_or_create(pk=1) makes it.
InitWith(stocks, logins, agents, roundings) ==
    InitStore(stocks, logins, agents, roundings, {SiteMinOrderAmount}, {Unused})

AllLoggedIn == [v \in Visitors |-> TRUE]
NoAgents == [b \in DeliveryBoys |-> FALSE]
AllAgents == [b \in DeliveryBoys |-> TRUE]

Init == InitWith(InitialStocks, {AllLoggedIn}, {NoAgents}, {"ROUND_HALF_EVEN"})

RequestKinds == {"GET", "POST_invalid", "POST_valid"}
Quantities == -1 .. MaxQty

\* A cart request of visitor r for one of the products prods.
CartRequest(r, prods) ==
    \/ \E p \in prods, q \in Quantities : cart_add(r, p, q)
    \/ \E p \in prods : cart_remove(r, p)
    \/ \E p \in prods, q \in Quantities : cart_update(r, p, q)

\* A promo request of visitor r naming one of codes, or no code.
PromoRequestOf(r, codes) ==
    \/ \E code \in codes \cup {NoCode} : apply_promo_code(r, code)
    \/ \E code \in codes \cup {NoCode} : set_promo_code(r, code)

\* A promo request of visitor r.
PromoRequest(r) == PromoRequestOf(r, SessionCodes)

\* One step of visitor r's checkout request, at most limit orders placed,
\* the form's shipping method drawn from methods, its saved address from
\* saves, the mail backend's answer from mails, the generated order number
\* from numbers.
CheckoutRequest(r, limit, methods, saves, mails, numbers) ==
    \/ \E kind \in RequestKinds : CheckoutOpen(r, kind, limit)
    \/ \E method \in methods, saved \in saves, number \in numbers :
          CheckoutCreate(r, method, saved, number)
    \/ \E delivered \in mails : CheckoutItems(r, delivered)
    \/ CheckoutCommit(r)
    \/ CheckoutFail(r)

\* One step of visitor r's checkout request whose generated order number
\* meets no other order's.
CheckoutStep(r, limit, methods, saves, mails) ==
    \/ \E kind \in RequestKinds : CheckoutOpen(r, kind, limit)
    \/ \E method \in methods, saved \in saves, number \in FreshNumbers(r) :
          CheckoutCreate(r, method, saved, number)
    \/ \E delivered \in mails : CheckoutItems(r, delivered)
    \/ CheckoutCommit(r)
    \/ CheckoutFail(r)

\* Concurrent visitors: cart, promo and checkout requests interleave.
Next ==
    \E r \in Visitors :
        \/ CartRequest(r, {1})
        \/ PromoRequest(r)
        \/ CheckoutStep(r, MaxOrders, {NoMethod}, {0}, {TRUE})

Spec == Init /\ [][Next]_vars

\* Carts only: both visitors add, change and remove lines of both products.
NextCart == \E r \in Visitors : CartRequest(r, ProductIds)

SpecCart == Init /\ [][NextCart]_vars

\* The orders the lifecycle specification lets the shopper place.
MaxLifeOrders == 1

\* Both database roundings, the delivery agents on duty.
InitLife == InitWith({2}, {AllLoggedIn}, {AllAgents}, RoundingModes)

\* The order lifecycle: what the owner, the admin, a delivery agent and the
\* payment model do to placed orders.
Lifecycle ==
    \/ \E i \in 1 .. MaxLifeOrders : Order_cancel(i)
    \/ \E r \in Visitors, i \in 1 .. MaxLifeOrders, post \in BOOLEAN : order_cancel(r, i, post)
    \/ \E S \in SUBSET DOMAIN orders : S # {} /\ mark_as_processing(S)
    \/ \E S \in SUBSET DOMAIN orders : S # {} /\ mark_as_shipped(S)
    \/ \E S \in SUBSET DOMAIN orders : S # {} /\ mark_as_delivered(S)
    \/ \E S \in SUBSET DOMAIN orders : S # {} /\ mark_as_cancelled(S)
    \/ \E b \in DeliveryBoys, i \in 1 .. MaxLifeOrders, action \in AgentActions :
          delivery_order_update(b, i, action)
    \/ \E i \in 1 .. MaxLifeOrders : mark_as_completed(i)
    \/ \E i \in 1 .. MaxLifeOrders : mark_as_failed(i)

\* One shopper fills a cart, applies the promo and checks out; the placed
\* order then goes through its lifecycle.
NextLife ==
    \/ \E r \in {1} :
          \/ CartRequest(r, {1})
          \/ PromoRequest(r)
          \/ CheckoutStep(r, MaxLifeOrders, {NoMethod}, {0}, {TRUE})
    \/ Lifecycle

SpecLife == InitLife /\ [][NextLife]_vars

\* ProductAdmin.list_editable: the admin's changelist saves a product's
\* price and discount_price (None: the field left empty).
ProductAdmin_list_editable(p, price, discount_price) ==
    /\ products' = [products EXCEPT ![p].price = price,
                                    ![p].discount_price = discount_price]
    /\ response' = Resp("admin", 0, "success")
    /\ UNCHANGED <<carts, cart_items, session_promo, promo_used, addresses, orders,
                   authenticated, boy_active, db_rounding, site_settings, pc, chk, outbox>>

\* Prices the admin enters (paise); MinValueValidator(0) admits 0.00.
Prices == {1010, 30000}
DiscountPrices == {None, 0, 500}

\* Carts while the admin changes prices.
NextPrice ==
    \/ \E r \in {1} : CartRequest(r, ProductIds)
    \/ \E p \in ProductIds, price \in Prices, discount_price \in DiscountPrices :
          ProductAdmin_list_editable(p, price, discount_price)

SpecPrice == Init /\ [][NextPrice]_vars

InitPromo == InitWith({2}, {AllLoggedIn}, {NoAgents}, {"ROUND_HALF_EVEN"})

\* One shopper tries every promo code on a cart and checks out.
NextPromo ==
    \E r \in {1} :
        \/ CartRequest(r, {1})
        \/ PromoRequestOf(r, DiscountCodes)
        \/ CheckoutStep(r, MaxLifeOrders, {NoMethod}, {0}, {TRUE})

SpecPromo == InitPromo /\ [][NextPromo]_vars

\* The one-use code before or after its use.
InitValid ==
    InitStore({2}, {AllLoggedIn}, {NoAgents}, {"ROUND_HALF_EVEN"}, {SiteMinOrderAmount},
              {[Unused EXCEPT !["SAVE5"] = n] : n \in 0 .. PromoRow("SAVE5").max_usage})

\* The visitors fill their carts and try the codes that fail validation
\* and the one-use code.
NextValid ==
    \E r \in Visitors :
        \/ CartRequest(r, {1})
        \/ PromoRequestOf(r, ValidityCodes \cup SessionCodes)

SpecValid == InitValid /\ [][NextValid]_vars

\* Requests served one after the other: no request starts while a checkout
\* is in flight.  The mail backend may refuse the confirmation.  The run
\* ends with the last order placed.
NextSeq ==
    \E r \in Visitors :
        \/ InCheckout = {} /\ Len(orders) < MaxOrders /\ CartRequest(r, {1})
        \/ InCheckout = {} /\ Len(orders) < MaxOrders /\ PromoRequest(r)
        \/ InCheckout \subseteq {r} /\ CheckoutStep(r, MaxOrders, {NoMethod}, {0}, BOOLEAN)

SpecSeq == Init /\ [][NextSeq]_vars

\* Visitor 1 has logged in, visitor 2 shops with a session-keyed cart.
OneAnonymous == [v \in Visitors |-> v = 1]

InitAnon == InitWith({2}, {OneAnonymous}, {NoAgents}, {"ROUND_HALF_EVEN"})

\* The two visitors fill their carts and check out, one request at a time.
NextAnon ==
    \E r \in Visitors :
        \/ InCheckout = {} /\ Len(orders) < MaxLifeOrders /\ CartRequest(r, {1})
        \/ InCheckout \subseteq {r} /\ CheckoutStep(r, MaxLifeOrders, {NoMethod}, {0}, {TRUE})

SpecAnon == InitAnon /\ [][NextAnon]_vars

\* Any subset of the delivery agents on duty.
InitAssign ==
    InitWith({2}, {AllLoggedIn}, [DeliveryBoys -> BOOLEAN], {"ROUND_HALF_EVEN"})

\* One shopper places orders of one unit each while the admin moves placed
\* orders on.
NextAssign ==
    \/ \E r \in {1} :
          \/ CartRows(cart_items, r) = {} /\ cart_add(r, 1, 1)
          \/ CheckoutStep(r, MaxOrders, {NoMethod}, {0}, {TRUE})
    \/ \E S \in SUBSET DOMAIN orders : S # {} /\ mark_as_processing(S)
    \/ \E S \in SUBSET DOMAIN orders : S # {} /\ mark_as_delivered(S)
    \/ \E S \in SUBSET DOMAIN orders : S # {} /\ mark_as_cancelled(S)

SpecAssign == InitAssign /\ [][NextAssign]_vars

\* The delivery agents on duty, the database rounding half to even.
InitFrame == InitWith({2}, {AllLoggedIn}, {AllAgents}, {"ROUND_HALF_EVEN"})

\* One shopper orders while the admin changes product 1's prices; the
\* placed order goes through its lifecycle.
NextFrame ==
    \/ \E r \in {1} :
          \/ CartRequest(r, {1})
          \/ PromoRequest(r)
          \/ CheckoutStep(r, MaxLifeOrders, {NoMethod}, {0}, {TRUE})
    \/ \E price \in Prices, discount_price \in DiscountPrices :
          ProductAdmin_list_editable(1, price, discount_price)
    \/ Lifecycle

SpecFrame == InitFrame /\ [][NextFrame]_vars

\* One shopper places orders; the generator may return any of its values,
\* also one an order already has.
NextNumber ==
    \E r \in {1} :
        \/ CartRequest(r, {1})
        \/ CheckoutRequest(r, MaxOrders, {NoMethod}, {0}, {TRUE}, OrderNumbers)

SpecNumber == InitPromo /\ [][NextNumber]_vars

\* Prices whose 5 percent discount has more than two decimal places.
FractionalPrices == {155, 1010}

\* One shopper orders with the promo while the admin reprices product 1.
NextTax ==
    \/ \E r \in {1} :
          \/ CartRequest(r, {1})
          \/ PromoRequest(r)
          \/ CheckoutStep(r, MaxLifeOrders, {NoMethod}, {0}, {TRUE})
    \/ \E price \in FractionalPrices : ProductAdmin_list_editable(1, price, None)

SpecTax == InitPromo /\ [][NextTax]_vars

\* SiteSettings.min_order_amount of the run: the default, or 20.00.
SiteMinimums == {SiteMinOrderAmount, 2000}

InitShip ==
    InitStore({2}, {AllLoggedIn}, {NoAgents}, {"ROUND_HALF_EVEN"}, SiteMinimums, {Unused})

\* One shopper fills a cart with either product and checks out with or
\* without a shipping method, one request after the other, until the last
\* order is placed.
NextShip ==
    \E r \in {1} :
        \/ pc[r] = "idle" /\ Len(orders) < MaxLifeOrders /\ CartRequest(r, ProductIds)
        \/ CheckoutStep(r, MaxLifeOrders, ShippingMethods \cup {NoMethod}, {0}, {TRUE})

SpecShip == InitShip /\ [][NextShip]_vars

\* ------------------------------------------------------------- properties

\* The visitors whose checkout has passed the stock check for one unit of
\* product p and written its stock as left.
Decremented(p, left) ==
    {v \in Visitors :
        /\ pc[v] = "filled"
        /\ \E it \in chk[v].order[1].items : it.product = p /\ it.quantity = 1
        /\ \E w \in chk[v].product_w : w.id = p /\ w.row.stock = left}

\* C1: of two concurrent checkouts that each order one unit of a product
\* whose stock is 1, at most one passes the stock check and writes a
\* decremented stock.
C1_AtMostOneDecrement ==
    \A p \in ProductIds :
        products[p].stock = 1 => Cardinality(Decremented(p, 0)) <= 1

\* The committed orders that were granted the discount of promo code.
Granted(code) ==
    {i \in DOMAIN orders : orders[i].promo_code = code /\ orders[i].discount_amount > 0}

\* C2: the committed orders granted a promo's discount never outnumber the
\* promo's max_usage, however the checkouts interleave.
C2_GrantsWithinMaxUsage ==
    \A code \in PromoCodes :
        PromoRow(code).max_usage # None =>
            Cardinality(Granted(code)) <= PromoRow(code).max_usage

\* C3: in every reachable state a promo with a max_usage has
\* used_count <= max_usage.
C3_UsedCountWithinMaxUsage ==
    \A code \in PromoCodes :
        PromoRow(code).max_usage # None => promo_used[code] <= PromoRow(code).max_usage

\* C4: when a checkout raises after its form validated, no Order, OrderItem,
\* Payment or Address of that checkout exists, no stock and no used_count
\* has changed, and the cart rows are all still there.
C4_CheckoutAtomic ==
    [][\A r \in Visitors :
          (pc[r] \in {"priced", "created", "filled"} /\ pc'[r] = "idle"
              /\ response' \in Exceptions)
          => (/\ orders' = orders
              /\ addresses' = addresses
              /\ products' = products
              /\ promo_used' = promo_used
              /\ cart_items' = cart_items)]_vars

\* C4: a checkout got as far as sending its confirmation mail and then
\* raised; its cart is still filled and no order exists.
C4_Witness ==
    /\ response = "server_error"
    /\ \A v \in Visitors : pc[v] = "idle"
    /\ orders = <<>>
    /\ \E r \in outbox : CartRows(cart_items, r) # {}

\* C5: every persisted order has total = subtotal + tax_amount +
\* shipping_cost - discount_amount, through checkout and every later
\* lifecycle operation.
C5_TotalFormula ==
    \A i \in DOMAIN orders :
        orders[i].total = orders[i].subtotal + orders[i].tax_amount
                            + orders[i].shipping_cost - orders[i].discount_amount

\* C6: stock is never negative, and it changes only when a checkout commits,
\* which lowers it by exactly an ordered quantity that the stock of that
\* moment covers.
C6_StockOnlyLoweredByCommit ==
    /\ [](\A p \in ProductIds : products[p].stock >= 0)
    /\ [][\A p \in ProductIds :
            products'[p].stock # products[p].stock =>
                \E r \in Visitors :
                    /\ pc[r] = "filled" /\ pc'[r] = "idle"
                    /\ Len(orders') = Len(orders) + 1
                    /\ \E it \in orders'[Len(orders')].items :
                          /\ it.product = p
                          /\ it.quantity <= products[p].stock
                          /\ products'[p].stock = products[p].stock - it.quantity]_vars

Cancellable == {"pending", "processing"}

\* C7: an order becomes cancelled only from pending or processing and with
\* nothing else changed; Order.cancel() on any other status raises and
\* changes nothing; the owner's cancel view and the admin's bulk cancel
\* cancel exactly the orders that guard lets through.
C7_CancelGuard ==
    [][\A i \in DOMAIN orders :
          /\ (orders'[i].status = "cancelled" /\ orders[i].status # "cancelled")
                => /\ orders[i].status \in Cancellable
                   /\ orders'[i] = [orders[i] EXCEPT !.status = "cancelled"]
          /\ (Order_cancel(i) /\ orders[i].status \in Cancellable)
                => orders'[i].status = "cancelled" /\ response' # "ValidationError"
          /\ (Order_cancel(i) /\ orders[i].status \notin Cancellable)
                => /\ response' = "ValidationError"
                   /\ UNCHANGED <<dbVars, session_promo, pc, chk, outbox>>
          /\ ((\E r \in Visitors : order_cancel(r, i, TRUE)) \/ (\E S \in SUBSET DOMAIN orders : i \in S /\ mark_as_cancelled(S)))
                => /\ orders'[i].status =
                        IF orders[i].status \in Cancellable
                        THEN "cancelled" ELSE orders[i].status
                   /\ response' # "ValidationError"]_vars

\* C7: an order was cancelled, and a later Order.cancel() on it raised.
C7_Witness ==
    /\ response = "ValidationError"
    /\ \E i \in DOMAIN orders : orders[i].status = "cancelled"

\* C8: whenever an order moves to delivered, the same operation leaves its
\* payment_status paid.
C8_DeliveredIsPaid ==
    [][\A i \in DOMAIN orders :
          (orders'[i].status = "delivered" /\ orders[i].status # "delivered")
              => orders'[i].payment_status = "paid"]_vars

Statuses == {"pending", "processing", "shipped", "delivered", "cancelled", "refunded"}

StatusEdges ==
    {<<"pending", "processing">>, <<"processing", "shipped">>, <<"shipped", "delivered">>,
     <<"pending", "cancelled">>, <<"processing", "cancelled">>}
        \cup {<<s, "refunded">> : s \in Statuses}

\* C9: every change of an order's status follows an edge of the state
\* machine: pending -> processing -> shipped -> delivered, pending or
\* processing -> cancelled, any -> refunded.
C9_StatusFollowsEdges ==
    [][\A i \in DOMAIN orders :
          orders'[i].status # orders[i].status
              => <<orders[i].status, orders'[i].status>> \in StatusEdges]_vars

\* C10: a cart never holds two lines of one product; cart_add of a product
\* already in the cart raises that line's quantity by max(q, 1), and of a
\* new product creates exactly one line with quantity max(q, 1).
C10_OneLinePerProduct ==
    /\ [](\A c \in Visitors, p \in ProductIds : RowCount(cart_items, c, p) <= 1)
    /\ [][\A r \in Visitors, p \in ProductIds, q \in Quantities :
            cart_add(r, p, q) =>
                /\ RowCount(cart_items', r, p) = 1
                /\ IF ItemRows(cart_items, r, p) = {}
                   THEN ItemRows(cart_items', r, p) = {NewRow(r, p, Max(q, 1))}
                   ELSE \E row \in ItemRows(cart_items, r, p) :
                           ItemRows(cart_items', r, p)
                               = {NewRow(r, p, row.quantity + Max(q, 1))}
                /\ \A c \in Visitors, o \in ProductIds :
                      (c # r \/ o # p)
                          => ItemRows(cart_items', c, o) = ItemRows(cart_items, c, o)]_vars

\* C10: a visitor's cart holds both products, one of them on a line that
\* cart_add raised to two units.
C10_Witness ==
    \E c \in Visitors :
        /\ NewRow(c, 1, 2) \in BagToSet(cart_items)
        /\ ItemRows(cart_items, c, 2) # {}

\* The discount_price when it is not null, the price otherwise.
ListedPrice(prod) ==
    IF prod.discount_price # None THEN prod.discount_price ELSE prod.price

\* C11: a cart's get_total_price() is the sum over its lines of the
\* product's discount_price when that is non-null, else its price, times
\* the quantity, at the product prices of the moment.
C11_TotalOfListedPrices ==
    \A c \in Visitors :
        CartTotal(cart_items, products, c)
            = SumOver(CartRows(cart_items, c),
                      [row \in CartRows(cart_items, c) |->
                          ListedPrice(products[row.product]) * row.quantity])

\* The visitors whose checkout has priced a valid promo of the given type.
Discounted(type) ==
    {r \in Visitors :
        /\ pc[r] = "priced"
        /\ chk[r].promo_obj # NoCode
        /\ PromoRow(chk[r].promo_obj).discount_type = type
        /\ IsValid(PromoRow(chk[r].promo_obj), chk[r].promo_count,
                   chk[r].cart_total, Now) = "valid"}

\* C12: a percentage promo's discount is amount * discount_value / 100,
\* clamped to max_discount whenever max_discount is non-null.
C12_PercentageClamped ==
    \A r \in Discounted("percentage") :
        LET promo == PromoRow(chk[r].promo_obj)
            share == chk[r].cart_total * promo.discount_value
        IN  chk[r].discount_amount =
                IF promo.max_discount # None
                THEN Min(share, Exact(promo.max_discount))
                ELSE share

\* C13: a flat promo's discount is min(discount_value, amount), never more
\* than the amount, and computing it changes no stored row.
C13_FlatNeverExceedsAmount ==
    /\ [](\A r \in Discounted("flat") :
            /\ chk[r].discount_amount
                  = Exact(Min(PromoRow(chk[r].promo_obj).discount_value, chk[r].cart_total))
            /\ chk[r].discount_amount <= Exact(chk[r].cart_total))
    /\ [][((\E r \in Visitors, code \in PromoCodes : apply_promo_code(r, code))
             \/ (\E r \in Visitors : pc[r] = "idle" /\ pc'[r] = "priced"))
          => UNCHANGED <<products, cart_items, promo_used, addresses, orders>>]_vars

\* C13: a checkout priced the flat promo on a cart worth less than the
\* promo's value, and the discount is the cart's worth.
C13_Witness ==
    \E r \in Discounted("flat") :
        /\ chk[r].cart_total < PromoRow(chk[r].promo_obj).discount_value
        /\ chk[r].discount_amount = Exact(chk[r].cart_total)

\* Visitor r's checkout commits in this step.
Commits(r) ==
    /\ pc[r] = "filled" /\ pc'[r] = "idle"
    /\ Len(orders') = Len(orders) + 1

\* C14: when the session's promo fails validation at checkout, the order
\* still commits, with discount_amount 0, no promo_code reference, and the
\* promo's used_count unchanged.
C14_InvalidPromoDropped ==
    [][\A r \in Visitors :
          (/\ pc[r] = "filled" /\ pc'[r] = "idle" /\ response' \notin Exceptions
           /\ chk[r].promo_obj # NoCode
           /\ IsValid(PromoRow(chk[r].promo_obj), chk[r].promo_count,
                      chk[r].cart_total, Now) # "valid")
          => /\ Commits(r)
             /\ orders'[Len(orders')].discount_amount = 0
             /\ orders'[Len(orders')].promo_code = NoCode
             /\ promo_used' = promo_used]_vars

\* The committed orders that reference promo code.
Referencing(code) == {i \in DOMAIN orders : orders[i].promo_code = code}

\* C15: with requests served one after the other, used_count is the number
\* of committed orders referencing the promo: it changes only when a
\* checkout commits an order referencing the promo, and then by exactly 1.
C15_UsedCountCountsOrders ==
    /\ [](\A code \in PromoCodes : promo_used[code] = Cardinality(Referencing(code)))
    /\ [][\A code \in PromoCodes :
            promo_used'[code] # promo_used[code] =>
                /\ promo_used'[code] = promo_used[code] + 1
                /\ \E r \in Visitors :
                      Commits(r) /\ orders'[Len(orders')].promo_code = code]_vars

\* C15: two orders are committed, one referencing the promo and one not,
\* and the promo was used once.
C15_Witness ==
    /\ Len(orders) = 2
    /\ Cardinality(Referencing("SAVE5")) = 1
    /\ promo_used["SAVE5"] = 1

\* C16: an order's payment_status and its Payment's payment_status agree:
\* paid with completed, failed with failed, pending with pending.
C16_PaymentStatusAgrees ==
    \A i \in DOMAIN orders :
        /\ orders[i].payment_status = "paid" <=> orders[i].payment.payment_status = "completed"
        /\ orders[i].payment_status = "failed" <=> orders[i].payment.payment_status = "failed"
        /\ orders[i].payment_status = "pending" <=> orders[i].payment.payment_status = "pending"

\* C17: the confirmation mail of an order is handed to the mailer only once
\* the checkout's transaction has committed, never while it is open.
C17_MailAfterCommit ==
    [][\A r \in Visitors :
          (r \in outbox' /\ r \notin outbox) => ~(pc[r] # "idle" /\ pc'[r] # "idle")]_vars

\* C18: when sending the confirmation fails, the view goes on to its return
\* with every write in place, and the commit persists the order with its
\* items and payment, the stock decrements, the promo use and the cart
\* clearing, ending in the success redirect.
C18_MailFailureSwallowed ==
    /\ [][\A r \in Visitors :
            CheckoutItems(r, FALSE) =>
                /\ pc'[r] = "filled"
                /\ chk'[r].order # <<>>
                /\ chk'[r].order[1].items = OrderItems(CartRows(cart_items, r), products)]_vars
    /\ [](\A r \in Visitors : pc[r] = "filled" => ENABLED CheckoutCommit(r))
    /\ [][\A r \in Visitors :
            (pc[r] = "filled" /\ pc'[r] = "idle" /\ response' \notin Exceptions) =>
                /\ Commits(r)
                /\ orders'[Len(orders')].items = chk[r].order[1].items
                /\ orders'[Len(orders')].payment = chk[r].order[1].payment
                /\ \A w \in chk[r].product_w : products'[w.id] = w.row
                /\ chk[r].promo_w # None => promo_used'[chk[r].promo_obj] = chk[r].promo_w
                /\ \A row \in DOMAIN chk[r].cleared : row \notin BagToSet(cart_items')]_vars

\* C18: an order is committed whose confirmation mail was never accepted.
C18_Witness ==
    /\ \A v \in Visitors : pc[v] = "idle"
    /\ \E i \in DOMAIN orders : orders[i].user \notin outbox /\ orders[i].items # {}

\* C19: the agent a checkout assigns is an active agent with the fewest open
\* orders, the lowest id among ties; no agent when none is active, and the
\* order commits with that assignment either way.
C19_LeastLoadedActiveAgent ==
    /\ [][\A r \in Visitors :
            (pc[r] = "priced" /\ pc'[r] = "created") =>
                LET b == chk'[r].order[1].delivery_boy
                IN  IF \A a \in DeliveryBoys : ~boy_active[a]
                    THEN b = None
                    ELSE /\ b \in DeliveryBoys
                         /\ boy_active[b]
                         /\ \A a \in DeliveryBoys :
                               boy_active[a] =>
                                   \/ ActiveCount(orders, b) < ActiveCount(orders, a)
                                   \/ /\ ActiveCount(orders, b) = ActiveCount(orders, a)
                                      /\ b <= a]_vars
    /\ [][\A r \in Visitors :
            (pc[r] = "filled" /\ pc'[r] = "idle" /\ response' \notin Exceptions) =>
                /\ Commits(r)
                /\ orders'[Len(orders')].delivery_boy = chk[r].order[1].delivery_boy]_vars

\* C19: an order went to agent 2 although agent 1 is on duty, agent 1
\* holding an open order.
C19_Witness ==
    /\ boy_active[1]
    /\ \E i, j \in DOMAIN orders :
          /\ orders[i].delivery_boy = 1 /\ orders[i].status \in OpenStatuses
          /\ orders[j].delivery_boy = 2

\* C20: after a checkout commits, the visitor's cart has no items and its
\* Cart row is still there; a checkout request on an empty cart creates no
\* order.
C20_CartEmptiedAndKept ==
    /\ [][\A r \in Visitors :
            Commits(r) => CartRows(cart_items', r) = {} /\ r \in carts']_vars
    /\ [][carts \subseteq carts']_vars
    /\ [][\A r \in Visitors, kind \in RequestKinds :
            (CartRows(cart_items, r) = {} /\ CheckoutOpen(r, kind, MaxOrders))
                => UNCHANGED <<pc, chk, orders, cart_items>>]_vars

\* C20: a visitor has an order, an empty cart and still a Cart row.
C20_Witness ==
    \E r \in Visitors :
        /\ pc[r] = "idle"
        /\ r \in carts
        /\ CartRows(cart_items, r) = {}
        /\ \E i \in DOMAIN orders : orders[i].user = r

\* The five checks of a promo in the order the validity rule lists them:
\* whether each fails, and the reason it gives.
ValidityChecks(promo, used, cart_total, now) ==
    << <<~promo.is_active, "inactive">>,
       <<now < promo.valid_from, "not_yet_valid">>,
       <<promo.valid_until # None /\ now > promo.valid_until, "expired">>,
       <<promo.max_usage # None /\ used >= promo.max_usage, "exhausted">>,
       <<cart_total < promo.min_purchase, "below_min_purchase">> >>

\* The reason of the first failing check, "valid" when all five pass.
FirstFailure(checks) ==
    LET failing == {k \in DOMAIN checks : checks[k][1]}
    IN  IF failing = {} THEN "valid"
        ELSE checks[CHOOSE k \in failing : \A j \in failing : k <= j][2]

\* C23: is_valid reports the first failing of inactive, not yet valid,
\* expired, usage exhausted, below minimum purchase, and valid only when
\* all five pass; it changes no stored row; apply_promo_code stores the
\* code in the session only when is_valid reports valid.
C23_FirstFailingReason ==
    /\ [](\A code \in PromoCodes, r \in Visitors :
            LET cart_total == CartTotal(cart_items, products, r)
            IN  IsValid(PromoRow(code), promo_used[code], cart_total, Now)
                    = FirstFailure(ValidityChecks(PromoRow(code), promo_used[code],
                                                  cart_total, Now)))
    /\ [][\A r \in Visitors, code \in PromoCodes :
            apply_promo_code(r, code) =>
                /\ UNCHANGED <<products, cart_items, promo_used, addresses, orders>>
                /\ session_promo' =
                      IF FirstFailure(ValidityChecks(PromoRow(code), promo_used[code],
                                                     CartTotal(cart_items, products, r),
                                                     Now)) = "valid"
                      THEN [session_promo EXCEPT ![r] = code]
                      ELSE session_promo]_vars

\* C23: the one-use code is used up, and the session holds the code with a
\* minimum purchase, on a cart that meets it.
C23_Witness ==
    \E r \in Visitors :
        /\ promo_used["SAVE5"] = PromoRow("SAVE5").max_usage
        /\ session_promo[r] = "BIG"
        /\ CartTotal(cart_items, products, r) >= PromoRow("BIG").min_purchase

\* An order's monetary fields.
Money(o) == <<o.subtotal, o.tax_amount, o.shipping_cost, o.discount_amount, o.total>>

C22_OrderNumberRegenerated ==
    /\ [](\A i, j \in DOMAIN orders :
            i # j => orders[i].order_number # orders[j].order_number)
    /\ [][\A i \in DOMAIN orders : orders'[i].order_number = orders[i].order_number]_vars
    /\ [][\A r \in Visitors, number \in TakenNumbers(orders) :
            CheckoutCreate(r, NoMethod, 0, number) =>
                /\ pc'[r] = "created"
                /\ chk'[r].order[1].order_number \notin TakenNumbers(orders)]_vars

\* C24: every committed order's tax_amount is the tax function applied to
\* its subtotal less its discount_amount, so to the subtotal when the
\* discount is 0, and never to the pre-discount subtotal of a discounted
\* order.
C24_TaxOnDiscountedSubtotal ==
    \A i \in DOMAIN orders :
        orders[i].tax_amount
            \in CalculateTax(Exact(orders[i].subtotal - orders[i].discount_amount))

\* C25: with a shipping method chosen, the order's shipping_cost is 0 when
\* the total handed to the calculator reaches the method's
\* min_order_amount and the method's price otherwise, whatever the site
\* settings; the site-wide threshold and the default cost decide only
\* when no method is given.
C25_MethodBeforeSiteDefault ==
    /\ [][\A r \in Visitors, method \in ShippingMethods \cup {NoMethod},
             number \in OrderNumbers :
            (CheckoutCreate(r, method, 0, number) /\ pc'[r] = "created") =>
                chk'[r].order[1].shipping_cost =
                    IF method \in ShippingMethods
                    THEN IF chk[r].cart_total >= method.min_order_amount
                         THEN 0 ELSE method.price
                    ELSE IF chk[r].cart_total >= site_settings.min_order_amount
                         THEN 0 ELSE DefaultShippingCost]_vars
    /\ [][\A r \in Visitors :
            Commits(r) =>
                orders'[Len(orders')].shipping_cost = chk[r].order[1].shipping_cost]_vars

\* C25: under a positive site-wide minimum an order that meets it was
\* charged its method's price.
C25_Witness ==
    /\ site_settings.min_order_amount > 0
    /\ \E i \in DOMAIN orders, method \in ShippingMethods :
          /\ orders[i].subtotal >= site_settings.min_order_amount
          /\ orders[i].subtotal < method.min_order_amount
          /\ orders[i].shipping_cost = method.price

\* C28: an order placed without a shipping method has shipping_cost 0: a
\* cart below a positive site-wide minimum is turned away before an order
\* is made, so no committed order carries the default shipping cost.
C28_DefaultCostNeverCharged ==
    /\ [][\A r \in Visitors, number \in OrderNumbers :
            (CheckoutCreate(r, NoMethod, 0, number) /\ pc'[r] = "created") =>
                chk'[r].order[1].shipping_cost = 0]_vars
    /\ [](\A i \in DOMAIN orders : orders[i].shipping_cost # DefaultShippingCost)
    /\ [][\A r \in Visitors, kind \in RequestKinds :
            (/\ CheckoutOpen(r, kind, MaxLifeOrders)
             /\ site_settings.min_order_amount > 0
             /\ CartTotal(cart_items, products, r) < site_settings.min_order_amount)
                => UNCHANGED <<pc, chk, orders>>]_vars

\* C28: under a positive site-wide minimum an order too small for the
\* method's free shipping was placed without a method and ships free.
C28_Witness ==
    /\ site_settings.min_order_amount > 0
    /\ \E i \in DOMAIN orders :
          /\ orders[i].shipping_cost = 0
          /\ \A method \in ShippingMethods : orders[i].subtotal < method.min_order_amount

\* C26: every cart line has quantity >= 1 after any sequence of cart_add,
\* cart_update and cart_remove: cart_update deletes the line for a
\* quantity <= 0 and sets exactly the quantity otherwise, and cart_add
\* never stores less than 1.
C26_QuantityAtLeastOne ==
    /\ [](\A row \in BagToSet(cart_items) : row.quantity >= 1)
    /\ [][\A r \in Visitors, p \in ProductIds, q \in Quantities :
            (cart_update(r, p, q) /\ ItemRows(cart_items, r, p) # {}) =>
                ItemRows(cart_items', r, p) = IF q <= 0 THEN {} ELSE {NewRow(r, p, q)}]_vars
    /\ [][\A r \in Visitors, p \in ProductIds, q \in Quantities :
            cart_add(r, p, q) =>
                \A row \in ItemRows(cart_items', r, p) :
                    row.quantity >= 1 /\ row.quantity >= Max(q, 1)]_vars

\* C26: a visitor's cart was emptied and its Cart row is kept, while the
\* other visitor holds a line of one unit and a line of the most units.
C26_Witness ==
    \E r, v \in Visitors :
        /\ r \in carts /\ CartRows(cart_items, r) = {}
        /\ NewRow(v, 1, 1) \in BagToSet(cart_items)
        /\ NewRow(v, 2, MaxQty) \in BagToSet(cart_items)

\* C27: every committed order has at least one item and its subtotal is
\* the sum of its items' subtotals, also when cart requests interleave
\* with the checkout between the cart total and the snapshot of the lines.
C27_SubtotalIsSumOfItems ==
    \A i \in DOMAIN orders :
        /\ orders[i].items # {}
        /\ orders[i].subtotal
              = SumOver(orders[i].items, [it \in orders[i].items |-> it.subtotal])

\* C29: a valid checkout of an anonymous visitor whose cart meets the
\* minimum order amount goes on to commit: it creates the shipping Address
\* and an Order with no user.
C29_AnonymousCheckoutCommits ==
    [][\A r \in Visitors, number \in OrderNumbers :
          (~authenticated[r] /\ CheckoutCreate(r, NoMethod, 0, number))
              => /\ pc'[r] = "created"
                 /\ chk'[r].new_address
                 /\ chk'[r].order[1].user = None]_vars

\* C30: a delivery agent's mark_paid_cod leaves the persisted order paid
\* with payment_method cod, mark_paid_online leaves it paid with
\* payment_method stripe; status and the monetary fields stay as they were,
\* and no action of an agent changes an order assigned to somebody else.
C30_AgentMarksPaid ==
    [][\A b \in DeliveryBoys, i \in DOMAIN orders, action \in AgentActions :
          delivery_order_update(b, i, action)
              => /\ \A j \in DOMAIN orders :
                        orders[j].delivery_boy # b => orders'[j] = orders[j]
                 /\ action \in {"mark_paid_cod", "mark_paid_online"}
                        => /\ orders'[i].payment_status = "paid"
                           /\ orders'[i].payment_method
                                 = (IF action = "mark_paid_cod" THEN "cod" ELSE "stripe")
                           /\ orders'[i].status = orders[i].status
                           /\ Money(orders'[i]) = Money(orders[i])]_vars

====
